---- MODULE Spec2Model ----
(***************************************************************************)
(* Slide decks of tylerjw.dev: slides/roscon23_parameters.py and           *)
(* slides/rust_cpp_interop.py, built with the layout helpers of            *)
(* my_layouts.py on top of the elsie presentation library.                 *)
(*                                                                         *)
(* A run of one script is a straight line: init_deck, then one decorated   *)
(* slide definition after the other, then render_deck.  The state is the   *)
(* deck (style registry, slide list with one box tree per slide), the      *)
(* position in the script, and the files written.  The environment is the  *)
(* set of image assets missing from the static directory.                  *)
(*                                                                         *)
(* Text is kept as in the source, except that characters outside ASCII     *)
(* are transliterated and the body of a code block is kept by its first    *)
(* line and its number of lines.  A text with inline styles                *)
(* ("a ~link{b}") is kept as the segments elsie's parser makes of it.      *)
(* A "show" argument is kept as its sequence of characters.                *)
(***************************************************************************)
EXTENDS FiniteSets, Integers, Sequences, TLC

VARIABLES script, missing, pc, status, deck, renders, files

vars == <<script, missing, pc, status, deck, renders, files>>

(***************************************************************************)
(* Bounds                                                                  *)
(***************************************************************************)
\* At most this many image assets are absent from the static directory.
MaxMissing == 1

(***************************************************************************)
(* Generic helpers                                                         *)
(***************************************************************************)
Max(a, b) == IF a >= b THEN a ELSE b

RECURSIVE SetMax(_)
SetMax(S) == IF S = {} THEN 0
             ELSE LET x == CHOOSE y \in S : TRUE IN Max(x, SetMax(S \ {x}))

\* body applied to the value of e, which is computed once: the statements of a
\* function in sequence, each on the deck the one before it left
With(e, body(_)) == CHOOSE r \in {body(v) : v \in {e}} : TRUE

\* base overridden by the fields upd sets
Merge(base, upd) ==
  [k \in DOMAIN base \cup DOMAIN upd |-> IF k \in DOMAIN upd THEN upd[k] ELSE base[k]]

(***************************************************************************)
(* The environment: the image assets of the site                           *)
(***************************************************************************)
StaticDir == "../../static/images/"

ImageFiles == {"picknik_logo.png", "kart.jpg", "GoldenGateBridge.jpg",
               "hourglass_rust_cpp.png", "Zakimbridge.jpg",
               "Fremont_Bridge_Portland_Oregon.jpg", "Redcliff_bridge_2006.jpg"}

FileExists(path) == \E f \in ImageFiles \ missing : path = StaticDir \o f

\* The languages the scripts name that the highlighter knows; "" is no highlighting.
Lexers == {"C++", "Rust", "cmake", "toml"}

(***************************************************************************)
(* elsie: text styles and the deck's style registry                        *)
(***************************************************************************)
NoStyle == [x \in {} |-> 0]

\* elsie.SlideDeck(width, height, name_policy): an empty slide list and the built-in
\* styles.  name_policy "auto" is "unique" outside a notebook.
SlideDeck(width, height, name_policy) ==
  [width  |-> width,
   height |-> height,
   name_policy |-> IF name_policy = "auto" THEN "unique" ELSE name_policy,
   styles |-> [n \in {"default", "tt", "emph", "alert", "code"} |->
                 CASE n = "default" -> [font |-> "DejaVu Sans", size |-> 28, align |-> "middle",
                                         color |-> "black", bold |-> FALSE, italic |-> FALSE]
                   [] n = "tt"      -> [font |-> "DejaVu Sans Mono"]
                   [] n = "emph"    -> [italic |-> TRUE]
                   [] n = "alert"   -> [bold |-> TRUE, color |-> "red"]
                   [] n = "code"    -> [font |-> "DejaVu Sans Mono"]],
   slides |-> <<>>,
   err    |-> ""]

\* SlideDeck.set_style(name, style): (re)defines the name
set_style(d, name, style) ==
  IF d.err # "" THEN d
  ELSE [d EXCEPT !.styles = [n \in DOMAIN d.styles \cup {name} |->
                               IF n = name THEN style ELSE d.styles[n]]]

\* SlideDeck.update_style(name, style): the name must exist; the fields given are overridden
update_style(d, name, style) ==
  IF d.err # "" THEN d
  ELSE IF name \notin DOMAIN d.styles THEN [d EXCEPT !.err = "style"]
  ELSE [d EXCEPT !.styles[name] = Merge(d.styles[name], style)]

(***************************************************************************)
(* elsie: the box tree of a slide                                          *)
(***************************************************************************)
NoShow == <<>>

\* plain text, as parsed: one segment without an inline style
T(s) == <<[st |-> "", s |-> s]>>

\* "~st{s}"
S(st, s) == <<[st |-> st, s |-> s]>>

Boxes(d, s) == d.slides[s].boxes

\* the box created last on slide s
Last(d, s) == Len(Boxes(d, s))

\* parent.box(...), parent.sbox(...), parent.fbox(...), parent.overlay(...)
Box(d, s, parent, kind, name, show) ==
  IF d.err # "" THEN d
  ELSE [d EXCEPT !.slides[s].boxes =
          Append(@, [parent |-> parent, kind |-> kind, name |-> name,
                     show |-> show, items |-> <<>>])]

AddItem(d, s, box, item) ==
  [d EXCEPT !.slides[s].boxes[box].items = Append(@, item)]

SegStyles(segs) == {segs[i].st : i \in DOMAIN segs} \ {""}

\* box.text(text, style): the "default" style and every inline style name must be registered
text(d, s, box, segs, style) ==
  IF d.err # "" THEN d
  ELSE IF ~(({"default"} \cup SegStyles(segs)) \subseteq DOMAIN d.styles)
       THEN [d EXCEPT !.err = "style"]
  ELSE AddItem(d, s, box, [k |-> "text", segs |-> segs, style |-> style])

\* box.image(path): the file is read when the image is attached
image(d, s, box, path) ==
  IF d.err # "" THEN d
  ELSE IF ~FileExists(path) THEN [d EXCEPT !.err = "image"]
  ELSE AddItem(d, s, box, [k |-> "image", path |-> path])

\* box.code(language, text): style "code"; the language must be known to the highlighter
code(d, s, box, language, segs) ==
  IF d.err # "" THEN d
  ELSE IF ~(({"code"} \cup SegStyles(segs)) \subseteq DOMAIN d.styles)
       THEN [d EXCEPT !.err = "style"]
  ELSE IF language \notin Lexers \cup {""} THEN [d EXCEPT !.err = "language"]
  ELSE AddItem(d, s, box, [k |-> "code", language |-> language, segs |-> segs])

\* box.rect(bg_color=...)
rect(d, s, box, bg_color) ==
  IF d.err # "" THEN d
  ELSE AddItem(d, s, box, [k |-> "rect", bg_color |-> bg_color])

WithoutName(seq, name) == SelectSeq(seq, LAMBDA sl : sl.name # name)

\* SlideDeck.new_slide(name): a slide with its root box, appended to the list after
\* the deck's name policy is applied: "unique" refuses a name already in the deck,
\* "replace" drops the earlier slides of that name, "ignore" does neither.
new_slide(d, name, line) ==
  IF d.err # "" THEN d
  ELSE LET taken == \E i \in DOMAIN d.slides : d.slides[i].name = name
           kept  == IF d.name_policy = "replace" THEN WithoutName(d.slides, name)
                    ELSE d.slides
       IN IF d.name_policy = "unique" /\ taken THEN [d EXCEPT !.err = "name"]
          ELSE [d EXCEPT !.slides =
                  Append(kept, [name |-> name, line |-> line,
                                boxes |-> <<[parent |-> 0, kind |-> "root", name |-> "",
                                             show |-> NoShow, items |-> <<>>]>>])]

(***************************************************************************)
(* elsie.ext.unordered_list and show ranges                                *)
(***************************************************************************)
\* lst.item(show=...): a row under the list's box carrying the show range, the
\* bullet in it, and beside the bullet the box that is returned
item(d, s, parent, show) ==
  With(Box(d, s, parent, "box", "", show), LAMBDA d1 :
  With(Last(d1, s), LAMBDA row :
  With(Box(d1, s, row, "box", "", NoShow), LAMBDA d2 :
  With(text(d2, s, Last(d2, s), T("*"), NoStyle), LAMBDA d3 :
  With(Box(d3, s, row, "box", "", NoShow), LAMBDA d4 :
  [d |-> d4, ret |-> Last(d4, s)])))))

Digits == {"0", "1", "2", "3", "4", "5", "6", "7", "8", "9"}

DigitVal(c) == CHOOSE v \in 0..9 : ToString(v) = c

\* the number that starts at position i of cs, and the position after it
RECURSIVE ParseNum(_, _, _)
ParseNum(cs, i, acc) ==
  IF i <= Len(cs) /\ cs[i] \in Digits
  THEN ParseNum(cs, i + 1, 10 * acc + DigitVal(cs[i]))
  ELSE [v |-> acc, next |-> i]

\* "k": step k; "k+": every step from k on; "a-b": steps a to b; parts joined by ","
RECURSIVE ParseParts(_, _, _, _)
ParseParts(cs, i, steps, open) ==
  IF i > Len(cs) THEN [steps |-> steps, open |-> open]
  ELSE With(ParseNum(cs, i, 0), LAMBDA n :
       With(n.next, LAMBDA j :
         IF j <= Len(cs) /\ cs[j] = "+"
         THEN ParseParts(cs, j + 2, steps, n.v)
         ELSE IF j <= Len(cs) /\ cs[j] = "-"
         THEN With(ParseNum(cs, j + 1, 0), LAMBDA m :
                ParseParts(cs, m.next + 1, steps \cup (n.v .. m.v), open))
         ELSE ParseParts(cs, j + 1, steps \cup {n.v}, open)))

\* ShowInfo.parse
ParseShow(cs) == ParseParts(cs, 1, {}, 0)

\* ShowInfo.is_visible(step); a box without a show range is visible at every step
IsVisible(cs, step) ==
  \/ cs = NoShow
  \/ With(ParseShow(cs), LAMBDA info :
       step \in info.steps \/ (info.open > 0 /\ step >= info.open))

\* ShowInfo.max_step
MaxStep(cs) ==
  IF cs = NoShow THEN 1
  ELSE With(ParseShow(cs), LAMBDA info : Max(SetMax(info.steps), info.open))

\* the number of steps (pages) of a slide: the largest step its boxes mention
Steps(boxes) == SetMax({MaxStep(boxes[b].show) : b \in DOMAIN boxes} \cup {1})

\* a box is drawn at a step when it and every box above it are visible at that step
RECURSIVE Drawn(_, _, _)
Drawn(boxes, b, step) ==
  /\ IsVisible(boxes[b].show, step)
  /\ boxes[b].parent = 0 \/ Drawn(boxes, boxes[b].parent, step)

(***************************************************************************)
(* my_layouts.py                                                           *)
(***************************************************************************)
\* init_slides without its set_style("link", ...) line
init_slides_without_link ==
  With(SlideDeck(1920, 1080, "auto"), LAMBDA slides0 :
  With(update_style(slides0, "default", [font |-> "Lato", align |-> "left", size |-> 64]),
       LAMBDA slides1 :
  update_style(slides1, "code", [size |-> 38])))

\* def init_slides()
init_slides ==
  With(SlideDeck(1920, 1080, "auto"), LAMBDA slides0 :
  With(update_style(slides0, "default", [font |-> "Lato", align |-> "left", size |-> 64]),
       LAMBDA slides1 :
  With(update_style(slides1, "code", [size |-> 38]), LAMBDA slides2 :
  set_style(slides2, "link", [color |-> "blue"]))))

\* init_deck that keeps the name policy SlideDeck(width, height) has by default
init_deck_default_policy(font) ==
  With(update_style(init_slides, "default", [font |-> font]), LAMBDA slides1 :
  set_style(slides1, "grayed_text", [color |-> "gray"]))

\* def init_deck(font): not in the sources at hand.  Modelled as init_slides with the
\* font the caller gives, the grayed_text style the decks use, and a name policy under
\* which slides are only ever appended.
init_deck(font) ==
  With([init_slides EXCEPT !.name_policy = "ignore"], LAMBDA slides0 :
  With(update_style(slides0, "default", [font |-> font]), LAMBDA slides1 :
  set_style(slides1, "grayed_text", [color |-> "gray"])))

\* get_image_path with the directory taken relative to the site's root
get_image_path_from_root(filename) ==
  LET images_dir == "static/images/"
  IN images_dir \o filename

\* def get_image_path(filename)
get_image_path(filename) ==
  LET images_dir == "../../static/images/"
  IN images_dir \o filename

\* logo_header_slide that makes the title's bold style the deck's default style
\* instead of passing it to text()
logo_header_slide_restyles(d, s, parent, title) ==
  With(Box(d, s, parent, "box", "", NoShow), LAMBDA d1 :
  With(image(d1, s, Last(d1, s), get_image_path("picknik_logo.png")), LAMBDA d2 :
  With(Box(d2, s, parent, "sbox", "header", NoShow), LAMBDA d3 :
  With(Box(d3, s, Last(d3, s), "fbox", "", NoShow), LAMBDA d4 :
  With(update_style(d4, "default", [bold |-> TRUE]), LAMBDA d4b :
  With(text(d4b, s, Last(d4b, s), T(title), NoStyle), LAMBDA d5 :
  With(Box(d5, s, parent, "fbox", "content", NoShow), LAMBDA d6 :
  [d |-> d6, ret |-> Last(d6, s)])))))))

\* logo_header_slide that returns the "header" box where the "content" box belongs
logo_header_slide_returns_header(d, s, parent, title) ==
  With(Box(d, s, parent, "box", "", NoShow), LAMBDA d1 :
  With(image(d1, s, Last(d1, s), get_image_path("picknik_logo.png")), LAMBDA d2 :
  With(Box(d2, s, parent, "sbox", "header", NoShow), LAMBDA d3 :
  With(Last(d3, s), LAMBDA header :
  With(Box(d3, s, header, "fbox", "", NoShow), LAMBDA d4 :
  With(text(d4, s, Last(d4, s), T(title), [bold |-> TRUE]), LAMBDA d5 :
  With(Box(d5, s, parent, "fbox", "content", NoShow), LAMBDA d6 :
  [d |-> d6, ret |-> header])))))))

\* def logo_header_slide(parent, title)
logo_header_slide(d, s, parent, title) ==
  With(Box(d, s, parent, "box", "", NoShow), LAMBDA d1 :
  With(image(d1, s, Last(d1, s), get_image_path("picknik_logo.png")), LAMBDA d2 :
  With(Box(d2, s, parent, "sbox", "header", NoShow), LAMBDA d3 :
  With(Box(d3, s, Last(d3, s), "fbox", "", NoShow), LAMBDA d4 :
  With(text(d4, s, Last(d4, s), T(title), [bold |-> TRUE]), LAMBDA d5 :
  With(Box(d5, s, parent, "fbox", "content", NoShow), LAMBDA d6 :
  [d |-> d6, ret |-> Last(d6, s)]))))))

\* image_slide that hangs the box of the picture under the parent it was given
\* instead of under the row inside the content box
image_slide_image_on_parent(d, s, parent, title, image_path) ==
  With(logo_header_slide(d, s, parent, title), LAMBDA c0 :
  With(Box(c0.d, s, c0.ret, "fbox", "", NoShow), LAMBDA d1 :
  With(Last(d1, s), LAMBDA content :
  With(Box(d1, s, content, "fbox", "text_area", NoShow), LAMBDA d2 :
  With(Last(d2, s), LAMBDA text_area :
  With(Box(d2, s, parent, "sbox", "image", NoShow), LAMBDA d3 :
  With(image(d3, s, Last(d3, s), image_path), LAMBDA d4 :
  [d |-> d4, ret |-> text_area])))))))

\* def image_slide(parent, title, image_path)
image_slide(d, s, parent, title, image_path) ==
  With(logo_header_slide(d, s, parent, title), LAMBDA c0 :
  With(Box(c0.d, s, c0.ret, "fbox", "", NoShow), LAMBDA d1 :
  With(Last(d1, s), LAMBDA content :
  With(Box(d1, s, content, "fbox", "text_area", NoShow), LAMBDA d2 :
  With(Last(d2, s), LAMBDA text_area :
  With(Box(d2, s, content, "sbox", "image", NoShow), LAMBDA d3 :
  With(image(d3, s, Last(d3, s), image_path), LAMBDA d4 :
  [d |-> d4, ret |-> text_area])))))))

\* def section_title_slide(parent, title, subtitle)
section_title_slide(d, s, parent, title, subtitle) ==
  With(logo_header_slide(d, s, parent, ""), LAMBDA c0 :
  With(c0.ret, LAMBDA content :
  With(Box(c0.d, s, content, "sbox", "", NoShow), LAMBDA d1 :
  With(text(d1, s, Last(d1, s), T(title), [align |-> "right", size |-> 240, bold |-> TRUE]),
       LAMBDA d2 :
  With(Box(d2, s, content, "box", "", NoShow), LAMBDA d3 :
  With(text(d3, s, Last(d3, s), T(subtitle), NoStyle), LAMBDA d4 :
  [d |-> d4, ret |-> 0]))))))

\* code_slide that hands the title to code() where the language belongs
code_slide_title_as_language(d, s, parent, title, language, src) ==
  With(logo_header_slide(d, s, parent, title), LAMBDA c0 :
  With("#F6F8FA", LAMBDA code_bg :
  With(Box(c0.d, s, c0.ret, "box", "", NoShow), LAMBDA d1 :
  With(Last(d1, s), LAMBDA box :
  With(rect(d1, s, box, code_bg), LAMBDA d2 :
  With(Box(d2, s, box, "overlay", "", NoShow), LAMBDA d3 :
  With(Box(d3, s, Last(d3, s), "box", "", NoShow), LAMBDA d4 :
  With(code(d4, s, Last(d4, s), title, src), LAMBDA d5 :
  [d |-> d5, ret |-> 0]))))))))

\* def code_slide(parent, title, language, code)
code_slide(d, s, parent, title, language, src) ==
  With(logo_header_slide(d, s, parent, title), LAMBDA c0 :
  With("#F6F8FA", LAMBDA code_bg :
  With(Box(c0.d, s, c0.ret, "box", "", NoShow), LAMBDA d1 :
  With(Last(d1, s), LAMBDA box :
  With(rect(d1, s, box, code_bg), LAMBDA d2 :
  With(Box(d2, s, box, "overlay", "", NoShow), LAMBDA d3 :
  With(Box(d3, s, Last(d3, s), "box", "", NoShow), LAMBDA d4 :
  With(code(d4, s, Last(d4, s), language, src), LAMBDA d5 :
  [d |-> d5, ret |-> 0]))))))))

\* def text_slide(parent, title): not in the sources at hand.  Modelled as the header
\* frame with a text area under the content box, which is returned.
text_slide(d, s, parent, title) ==
  With(logo_header_slide(d, s, parent, title), LAMBDA c0 :
  With(Box(c0.d, s, c0.ret, "fbox", "text_area", NoShow), LAMBDA d1 :
  [d |-> d1, ret |-> Last(d1, s)]))

\* def full_image_slide(parent, title, image_path): not in the sources at hand.
\* Modelled as the header frame with the image filling the content box.
full_image_slide(d, s, parent, title, image_path) ==
  With(logo_header_slide(d, s, parent, title), LAMBDA c0 :
  With(Box(c0.d, s, c0.ret, "fbox", "image", NoShow), LAMBDA d1 :
  With(image(d1, s, Last(d1, s), image_path), LAMBDA d2 :
  [d |-> d2, ret |-> 0])))

\* def grayed_before_after_code_slide(parent, title, language, before, code, after):
\* not in the sources at hand.  Modelled as code_slide whose code is the three parts
\* in a row, the first and the last in the grayed_text style.
grayed_before_after_code_slide(d, s, parent, title, language, before, src, after) ==
  LET gray(part) == [i \in DOMAIN part |-> [part[i] EXCEPT !.st = "grayed_text"]]
  IN code_slide(d, s, parent, title, language, gray(before) \o src \o gray(after))

(***************************************************************************)
(* The statements of a slide definition                                    *)
(***************************************************************************)
\* @slides.slide(debug_boxes=False) at `line`, def fn(arg): body
Def(fn, line, arg, body) == [fn |-> fn, line |-> line, arg |-> arg, body |-> body]

\* dst = fn(on, args...)      a layout helper called on a box
H(dst, fn, on, args) == [st |-> "helper", dst |-> dst, fn |-> fn, on |-> on, args |-> args]

\* dst = unordered_list(recv.calls...)
L(dst, recv, calls) == [st |-> "list", dst |-> dst, recv |-> recv, calls |-> calls]

\* dst = recv.calls...        a chain of method calls on a box or a list
C(dst, recv, calls) == [st |-> "chain", dst |-> dst, recv |-> recv, calls |-> calls]

\* .box(...), .sbox(...), .fbox(...): of the keyword arguments, name and show are kept
mBox(kind, name, show) == [m |-> kind, name |-> name, show |-> show]

\* .item() that drops its show argument
mItem_without_show(show) == [m |-> "item", show |-> NoShow]

\* .item(show=...)
mItem(show) == [m |-> "item", show |-> show]

\* .text(text, style)
mText(segs, style) == [m |-> "text", segs |-> segs, style |-> style]

\* .code(language, text)
mCode(language, segs) == [m |-> "code", language |-> language, segs |-> segs]

\* .rect(bg_color=...)
mRect(bg_color) == [m |-> "rect", bg_color |-> bg_color]

\* the text of a code block: its first line that is not blank, and its number of lines
Src(first, n) == <<[st |-> "", s |-> first, n |-> n]>>

CallHelper(d, s, fn, parent, args) ==
  CASE fn = "logo_header_slide"   -> logo_header_slide(d, s, parent, args[1])
    [] fn = "image_slide"         -> image_slide(d, s, parent, args[1], args[2])
    [] fn = "section_title_slide" -> section_title_slide(d, s, parent, args[1], args[2])
    [] fn = "code_slide"          -> code_slide(d, s, parent, args[1], args[2], args[3])
    [] fn = "text_slide"          -> text_slide(d, s, parent, args[1])
    [] fn = "full_image_slide"    -> full_image_slide(d, s, parent, args[1], args[2])
    [] fn = "grayed_before_after_code_slide" ->
         grayed_before_after_code_slide(d, s, parent, args[1], args[2], args[3], args[4], args[5])

\* a chain of calls, each on what the one before it returned
RECURSIVE RunCalls(_, _, _, _, _)
RunCalls(d, s, cur, calls, i) ==
  IF i > Len(calls) THEN [d |-> d, ret |-> cur]
  ELSE With(calls[i], LAMBDA c :
       CASE c.m \in {"box", "sbox", "fbox"} ->
              With(Box(d, s, cur, c.m, c.name, c.show), LAMBDA d1 :
                RunCalls(d1, s, Last(d1, s), calls, i + 1))
         [] c.m = "item" ->
              With(item(d, s, cur, c.show), LAMBDA r : RunCalls(r.d, s, r.ret, calls, i + 1))
         [] c.m = "text" -> RunCalls(text(d, s, cur, c.segs, c.style), s, cur, calls, i + 1)
         [] c.m = "code" -> RunCalls(code(d, s, cur, c.language, c.segs), s, cur, calls, i + 1)
         [] c.m = "rect" -> RunCalls(rect(d, s, cur, c.bg_color), s, cur, calls, i + 1))

Bind(env, dst, v) ==
  IF dst = "" THEN env
  ELSE [n \in DOMAIN env \cup {dst} |-> IF n = dst THEN v ELSE env[n]]

\* the statements of a slide function from the i-th on, env the local variables
RECURSIVE RunBody(_, _, _, _, _)
RunBody(d, s, env, body, i) ==
  IF i > Len(body) \/ d.err # "" THEN d
  ELSE With(body[i], LAMBDA stmt :
       With(IF stmt.st = "helper" THEN stmt.on ELSE stmt.recv, LAMBDA recv :
         IF recv \notin DOMAIN env THEN [d EXCEPT !.err = "name"]
         ELSE With(IF stmt.st = "helper"
                   THEN CallHelper(d, s, stmt.fn, env[recv], stmt.args)
                   ELSE RunCalls(d, s, env[recv], stmt.calls, 1),
                   LAMBDA r : RunBody(r.d, s, Bind(env, stmt.dst, r.ret), body, i + 1))))

\* @slides.slide(...) applied to a function: new_slide(name=fn.__name__), then the
\* function is called on the new slide's root box
slide(d, def) ==
  With(new_slide(d, def.fn, def.line), LAMBDA d1 :
    IF d1.err # "" THEN d1
    ELSE RunBody(d1, Len(d1.slides), [n \in {def.arg} |-> 1], def.body, 1))

(***************************************************************************)
(* The scripts                                                             *)
(***************************************************************************)
\* slides/roscon23_parameters.py, lines 17-344: the decorated slide definitions, in the order of the script
roscon23_parameters ==
  <<
   \* 1: lines 17-28
   Def("title", 17, "slide", <<
       H("content", "logo_header_slide", "slide", <<"">>),
       C("", "content", <<mBox("box", "", NoShow), mText(T("Parameters Should\nBe Boring"), [size |-> 160, bold |-> TRUE])>>),
       C("", "content", <<mBox("box", "", NoShow), mText(T("generate_parameter_library"), [size |-> 36, bold |-> TRUE, italic |-> TRUE])>>),
       C("", "content", <<mBox("box", "", NoShow), mText(T("October 20, 2023"), NoStyle)>>),
       C("", "content", <<mBox("box", "", NoShow), mText(T("Tyler Weaver"), NoStyle)>>),
       C("", "content", <<mBox("box", "", NoShow), mText(T("Staff Software Engineer\ntyler@picknik.ai"), NoStyle)>>)>>),
   \* 2: lines 31-38
   Def("author", 31, "slide", <<
       H("text_area", "image_slide", "slide", <<"Tyler Weaver", get_image_path("kart.jpg")>>),
       L("lst", "text_area", <<>>),
       C("", "lst", <<mItem(NoShow), mText(T("Racing Kart Driver"), NoStyle)>>),
       C("", "lst", <<mItem(NoShow), mText(T("MoveIt Maintainer"), NoStyle)>>),
       C("", "lst", <<mItem(NoShow), mText(T("Rust Evangelist"), NoStyle)>>),
       C("", "lst", <<mItem(NoShow), mText(T("Docker Skeptic"), NoStyle)>>)>>),
   \* 3: lines 41-43
   Def("part_1", 41, "slide", <<
       H("", "section_title_slide", "slide", <<"RCLCPP\nParameters", "Part 1">>)>>),
   \* 4: lines 46-67
   Def("innocence", 46, "slide", <<
       H("", "grayed_before_after_code_slide", "slide", <<"Getting Started", "C++", Src("int main(int argc, char ** argv)", 5), Src("  auto my_string = node->declare_parameter(\"my_string\", \"world\");", 3), Src("  rclcpp::spin(node);", 4)>>)>>),
   \* 5: lines 70-94
   Def("struct_with_defaults", 70, "slide", <<
       H("", "code_slide", "slide", <<"Parameter Struct", "C++", Src("struct Params {", 17)>>)>>),
   \* 6: lines 97-123
   Def("details", 97, "slide", <<
       H("", "code_slide", "slide", <<"ParameterDescriptor", "C++", Src("int main(int argc, char ** argv)", 19)>>)>>),
   \* 7: lines 126-153
   Def("validate", 126, "slide", <<
       H("", "code_slide", "slide", <<"Validation", "C++", Src("auto const _ = node->add_on_set_parameters_callback(", 20)>>)>>),
   \* 8: lines 156-162
   Def("copy_pasta", 156, "slide", <<
       H("content", "logo_header_slide", "slide", <<"Copy Pasta">>),
       L("lst", "content", <<mBox("box", "", NoShow)>>),
       C("", "lst", <<mItem(NoShow), mText(T("parameter name: 6 separate copies"), NoStyle)>>),
       C("", "lst", <<mItem(NoShow), mText(T("declaration: re-init description for each parameter"), NoStyle)>>),
       C("", "lst", <<mItem(NoShow), mText(T("validation: convert vector to map"), NoStyle)>>)>>),
   \* 9: lines 165-171
   Def("validate", 165, "slide", <<
       H("content", "logo_header_slide", "slide", <<"">>),
       C("", "content", <<mBox("box", "", NoShow), mText(T("30 lines of C++ boilderpate per parameter"), NoStyle)>>),
       C("", "content", <<mBox("box", "", <<"2">>), mText(T("Before handling of dynamic parameters"), [color |-> "red"])>>)>>),
   \* 10: lines 174-176
   Def("part2", 174, "slide", <<
       H("", "section_title_slide", "slide", <<"generate_\nparameter_library", "Part 2">>)>>),
   \* 11: lines 179-202
   Def("gpl", 179, "slide", <<
       H("", "code_slide", "slide", <<"YAML", "toml", Src("minimal_param_node:", 16)>>)>>),
   \* 12: lines 205-225
   Def("gpl", 205, "slide", <<
       H("", "code_slide", "slide", <<"CMake Module", "cmake", Src("find_package(generate_parameter_library REQUIRED)", 13)>>)>>),
   \* 13: lines 228-248
   Def("gpl", 228, "slide", <<
       H("", "code_slide", "slide", <<"C++ Usage", "C++", Src("#include <rclcpp/rclcpp.hpp>", 13)>>)>>),
   \* 14: lines 251-265
   Def("gpl", 251, "slide", <<
       H("content", "logo_header_slide", "slide", <<"Built-In Validation Functions">>),
       L("lst", "content", <<>>),
       C("", "lst", <<mItem(NoShow), mText(T("bounds (inclusive)"), NoStyle)>>),
       C("", "lst", <<mItem(NoShow), mText(T("less than"), NoStyle)>>),
       C("", "lst", <<mItem(NoShow), mText(T("greater than"), NoStyle)>>),
       C("", "lst", <<mItem(NoShow), mText(T("less than or equal"), NoStyle)>>),
       C("", "lst", <<mItem(NoShow), mText(T("greater than or equal"), NoStyle)>>),
       C("", "lst", <<mItem(<<"2">>), mText(T("fixed string/array length"), NoStyle)>>),
       C("", "lst", <<mItem(<<"2">>), mText(T("size of string/array length greater than"), NoStyle)>>),
       C("", "lst", <<mItem(<<"2">>), mText(T("size of string/array length less than"), NoStyle)>>),
       C("", "lst", <<mItem(<<"2">>), mText(T("array contains no duplicates"), NoStyle)>>),
       C("", "lst", <<mItem(<<"2">>), mText(T("array is a subset of another array"), NoStyle)>>),
       C("", "lst", <<mItem(<<"2">>), mText(T("bounds checking for elements of an array"), NoStyle)>>)>>),
   \* 15: lines 268-290
   Def("gpl", 268, "slide", <<
       H("", "code_slide", "slide", <<"Custom Validation", "C++", Src("#include <rclcpp/rclcpp.hpp>", 15)>>)>>),
   \* 16: lines 293-302
   Def("gpl", 293, "slide", <<
       H("content", "logo_header_slide", "slide", <<"Other Killer Features">>),
       L("lst", "content", <<mBox("box", "", NoShow)>>),
       C("", "lst", <<mItem(NoShow), mText(T("Dynamic parameters"), NoStyle)>>),
       C("", "lst", <<mItem(NoShow), mText(T("Generation of RCLPY Parameter Libraries"), NoStyle)>>),
       C("", "lst", <<mItem(NoShow), mText(T("Generation of Markdown Docs"), NoStyle)>>),
       C("", "lst", <<mItem(NoShow), mText(T("Examples and docs at\n") \o S("link", "github.com/PickNikRobotics/generate_parameter_library"), NoStyle)>>)>>),
   \* 17: lines 305-307
   Def("part3", 305, "slide", <<
       H("", "section_title_slide", "slide", <<"Boring?", "Part 3">>)>>),
   \* 18: lines 310-320
   Def("gpl", 310, "slide", <<
       H("content", "logo_header_slide", "slide", <<"Why so many parameters?">>),
       L("lst", "content", <<mBox("box", "", NoShow)>>),
       C("", "lst", <<mItem(NoShow), mText(T("Users use defaults for most parameters"), NoStyle)>>),
       C("", "lst", <<mItem(<<"2", "+">>), mText(T("Authors only test default values"), NoStyle)>>),
       C("", "lst", <<mItem(<<"3", "+">>), mText(T("Permutations of parameters grow exponentially"), NoStyle)>>),
       C("", "lst", <<mItem(<<"4", "+">>), mText(T("The more complex your interface the less useful your abstraction"), NoStyle)>>),
       C("", "lst", <<mItem(<<"5", "+">>), mText(T("Resist the urge to expose interior details as parameters"), NoStyle)>>)>>),
   \* 19: lines 323-331
   Def("gpl", 323, "slide", <<
       H("content", "logo_header_slide", "slide", <<"What is a good parameter?">>),
       L("lst", "content", <<mBox("box", "", NoShow)>>),
       C("", "lst", <<mItem(NoShow), mText(T("Express user intent (latency or throughput)"), NoStyle)>>),
       C("", "lst", <<mItem(<<"2", "+">>), mText(T("Details like buffer sizes scale with hardware"), NoStyle)>>),
       C("", "lst", <<mItem(<<"3", "+">>), mText(T("Leave the door open to improvements in behavior for the user"), NoStyle)>>)>>),
   \* 20: lines 334-344
   Def("thank_you", 334, "slide", <<
       H("content", "logo_header_slide", "slide", <<"">>),
       C("", "content", <<mBox("fbox", "", NoShow), mText(T("Questions?\n") \o S("link", "github.com/PickNikRobotics/generate_parameter_library") \o T("\n"), [align |-> "middle"])>>),
       C("", "content", <<mBox("sbox", "", NoShow), mText(T("Slides generated using Elsie\n") \o S("link", "tylerjw.dev/roscon23-parameters/"), [align |-> "right", size |-> 32])>>)>>)
  >>

\* slides/rust_cpp_interop.py, lines 18-489: the decorated slide definitions, in the order of the script
rust_cpp_interop ==
  <<
   \* 1: lines 18-29
   Def("title", 18, "slide", <<
       H("content", "logo_header_slide", "slide", <<"">>),
       C("", "content", <<mBox("box", "", NoShow), mText(T("Rust/C++ Interop"), [size |-> 160, bold |-> TRUE])>>),
       C("", "content", <<mBox("box", "", NoShow), mText(T("Boulder Rust Meetup"), [size |-> 36, bold |-> TRUE, italic |-> TRUE])>>),
       C("", "content", <<mBox("box", "", NoShow), mText(T("February 7, 2024"), NoStyle)>>),
       C("", "content", <<mBox("box", "", NoShow), mText(T("Tyler Weaver"), NoStyle)>>),
       C("", "content", <<mBox("box", "", NoShow), mText(T("Staff Software Engineer\nmaybe@tylerjw.dev"), NoStyle)>>)>>),
   \* 2: lines 32-39
   Def("author", 32, "slide", <<
       H("text_area", "text_slide", "slide", <<"Tyler Weaver">>),
       L("lst", "text_area", <<>>),
       C("", "lst", <<mItem(NoShow), mText(T("Regular C++ Programmer"), NoStyle)>>),
       C("", "lst", <<mItem(NoShow), mText(T("Rust Cult Member"), NoStyle)>>),
       C("", "lst", <<mItem(NoShow), mText(T("Open-source Robotcist"), NoStyle)>>),
       C("", "lst", <<mItem(NoShow), mText(T("Wrote a Rust Library with C++ Bindings"), NoStyle)>>)>>),
   \* 3: lines 42-47
   Def("prefix", 42, "slide", <<
       H("text_area", "text_slide", "slide", <<"Prefix">>),
       L("lst", "text_area", <<>>),
       C("", "lst", <<mItem(NoShow), mText(T("No AI generation tools were used"), NoStyle)>>),
       C("", "lst", <<mItem(NoShow), mText(T("Slides and more at ") \o S("link", "tylerjw.dev"), NoStyle)>>)>>),
   \* 4: lines 50-57
   Def("why", 50, "slide", <<
       H("text_area", "text_slide", "slide", <<"What Are We Going To Cover">>),
       L("lst", "text_area", <<>>),
       C("", "lst", <<mItem(NoShow), mText(T("Social Objections to Rust"), NoStyle)>>),
       C("", "lst", <<mItem(NoShow), mText(T("Details of Interop"), NoStyle)>>),
       C("", "lst", <<mItem(NoShow), mText(T("Examples of Useful Patterns"), NoStyle)>>),
       C("", "lst", <<mItem(NoShow), mText(T("Code Generation Tools"), NoStyle)>>)>>),
   \* 5: lines 60-73
   Def("why", 60, "slide", <<
       H("text_area", "text_slide", "slide", <<"A Collective Craft">>),
       C("lead", "text_area", <<mBox("sbox", "", NoShow), mText(T("Quality of your project has more to do with the people\nthat build it than the tools selected. It is fine\nand good for the people to like their tools."), [align |-> "middle"])>>),
       L("lst", "text_area", <<mBox("box", "", NoShow)>>),
       C("", "lst", <<mItem(NoShow), mText(T("C++ code that exists has value"), NoStyle)>>),
       C("", "lst", <<mItem(NoShow), mText(T("A little Rust is better than no Rust"), NoStyle)>>)>>),
   \* 6: lines 76-93
   Def("why", 76, "slide", <<
       H("text_area", "text_slide", "slide", <<"After Action Report">>),
       C("", "text_area", <<mBox("sbox", "", NoShow), mText(T("Coworker wrote this about writing a Rust project."), [align |-> "middle", bold |-> TRUE])>>),
       L("lst", "text_area", <<mBox("box", "", NoShow)>>),
       C("", "lst", <<mItem(NoShow), mText(T("It was quick! (2 engineers took 5 days)"), NoStyle)>>),
       C("", "lst", <<mItem(NoShow), mText(T("Cargo was a pleasure to work with."), NoStyle)>>),
       C("", "lst", <<mItem(NoShow), mText(T("It really helps focusing on the code instead\n  of dependencies / build rules."), NoStyle)>>),
       C("", "lst", <<mItem(NoShow), mText(T("Going back to cmake / ament feels miserable."), NoStyle)>>),
       C("", "lst", <<mItem(NoShow), mText(T("Builds are super quick."), NoStyle)>>),
       C("", "lst", <<mItem(NoShow), mText(T("Compiler errors are helpful."), NoStyle)>>),
       C("", "lst", <<mItem(NoShow), mText(T("Great vscode integration."), NoStyle)>>),
       C("", "lst", <<mItem(NoShow), mText(T("Safe, modern and efficient at the core."), NoStyle)>>)>>),
   \* 7: lines 95-145
   Def("first_class_types", 95, "slide", <<
       H("text_area", "text_slide", "slide", <<"Is this Possible?">>),
       C("", "text_area", <<mBox("sbox", "", NoShow), mText(T("Rust"), [align |-> "middle", bold |-> TRUE])>>),
       C("code_block_1", "text_area", <<mBox("sbox", "code_block_1", NoShow)>>),
       C("", "code_block_1", <<mRect("#EAEAEA")>>),
       C("", "code_block_1", <<mBox("box", "", NoShow), mCode("Rust", Src("let joint = Joint::new();", 2))>>),
       C("", "text_area", <<mBox("sbox", "", NoShow), mText(T("C++"), [align |-> "middle", bold |-> TRUE])>>),
       C("code_block_2", "text_area", <<mBox("sbox", "code_block_2", NoShow)>>),
       C("", "code_block_2", <<mRect("#EAEAEA")>>),
       C("", "code_block_2", <<mBox("box", "", NoShow), mCode("C++", Src("Joint joint();", 2))>>)>>),
   \* 8: lines 147-151
   Def("bridge", 147, "slide", <<
       H("", "full_image_slide", "slide", <<"Golden Gate Bridge", get_image_path("GoldenGateBridge.jpg")>>)>>),
   \* 9: lines 154-170
   Def("other_info", 154, "slide", <<
       H("text_area", "text_slide", "slide", <<"Before We Begin">>),
       C("", "text_area", <<mBox("sbox", "", NoShow), mText(T("Code Generators"), [align |-> "middle", bold |-> TRUE])>>),
       L("lst", "text_area", <<mBox("box", "", NoShow)>>),
       C("", "lst", <<mItem(NoShow), mText(T("cxx - Safe interop between Rust and C++"), NoStyle)>>),
       C("", "lst", <<mItem(NoShow), mText(T("bindgen - generate Rust FFI to C/C++ headers"), NoStyle)>>),
       C("", "lst", <<mItem(NoShow), mText(T("cbindgen - generate C headers for Rust FFI"), NoStyle)>>),
       C("", "text_area", <<mBox("sbox", "", NoShow), mText(T("Why Not"), [align |-> "middle", bold |-> TRUE])>>),
       L("lst", "text_area", <<mBox("box", "", NoShow)>>),
       C("", "lst", <<mItem(NoShow), mText(T("Eigen C++ types <=> Nalgebra Rust types"), NoStyle)>>)>>),
   \* 10: lines 173-177
   Def("bridge", 173, "slide", <<
       H("", "full_image_slide", "slide", <<"Hourglass Language Bridge", get_image_path("hourglass_rust_cpp.png")>>)>>),
   \* 11: lines 180-194
   Def("layout", 180, "slide", <<
       H("", "code_slide", "slide", <<"Project Layout", "", Src("|-- Cargo.toml", 7)>>)>>),
   \* 12: lines 197-221
   Def("layout", 197, "slide", <<
       H("", "code_slide", "slide", <<"Project Layout", "", Src("|-- Cargo.toml", 17)>>)>>),
   \* 13: lines 223-225
   Def("bridge", 223, "slide", <<
       H("", "full_image_slide", "slide", <<"Zakim Bridge", get_image_path("Zakimbridge.jpg")>>)>>),
   \* 14: lines 228-243
   Def("opaque_types", 228, "slide", <<
       H("", "code_slide", "slide", <<"robot_joint/src/lib.rs", "Rust", Src("pub struct Joint {", 8)>>)>>),
   \* 15: lines 246-266
   Def("opaque_types", 246, "slide", <<
       H("", "code_slide", "slide", <<"robot_joint-cpp/src/lib.rs", "Rust", Src("use robot_joint::Joint;", 13)>>)>>),
   \* 16: lines 269-294
   Def("opaque_types", 269, "slide", <<
       H("", "code_slide", "slide", <<"robot_joint-cpp/include/robot_joint.hpp", "C++", Src("struct RustJoint;", 18)>>)>>),
   \* 17: lines 297-310
   Def("opaque_types", 297, "slide", <<
       H("", "code_slide", "slide", <<"robot_joint-cpp/src/lib.cpp", "C++", Src("#include \"robot_joint.hpp\"", 6)>>)>>),
   \* 18: lines 313-337
   Def("opaque_types", 313, "slide", <<
       H("", "code_slide", "slide", <<"robot_joint-cpp/src/lib.cpp", "C++", Src("Joint::Joint() : joint_(robot_joint_new()) {}", 17)>>)>>),
   \* 19: lines 340-346
   Def("other_info", 340, "slide", <<
       H("text_area", "text_slide", "slide", <<"Build System Integration">>),
       C("", "text_area", <<mBox("sbox", "", NoShow), mText(T("See My Blog for a link to CMake example\n") \o S("link", "tylerjw.dev"), [align |-> "middle", bold |-> TRUE])>>)>>),
   \* 20: lines 349-353
   Def("bridge", 349, "slide", <<
       H("", "full_image_slide", "slide", <<"Fremont Bridge", get_image_path("Fremont_Bridge_Portland_Oregon.jpg")>>)>>),
   \* 21: lines 356-407
   Def("first_class_types", 356, "slide", <<
       H("text_area", "text_slide", "slide", <<"First-class Types">>),
       C("", "text_area", <<mBox("sbox", "", NoShow), mText(T("robot_joint/src/lib.rs"), [align |-> "middle", bold |-> TRUE])>>),
       C("code_block_1", "text_area", <<mBox("sbox", "code_block_1", NoShow)>>),
       C("", "code_block_1", <<mRect("#EAEAEA")>>),
       C("", "code_block_1", <<mBox("box", "", NoShow), mCode("Rust", Src("impl Joint {", 3))>>),
       C("", "text_area", <<mBox("sbox", "", NoShow), mText(T("robot_joint-cpp/include/robot_joint.hpp"), [align |-> "middle", bold |-> TRUE])>>),
       C("code_block_2", "text_area", <<mBox("sbox", "code_block_2", NoShow)>>),
       C("", "code_block_2", <<mRect("#EAEAEA")>>),
       C("", "code_block_2", <<mBox("box", "", NoShow), mCode("C++", Src("class Joint {", 4))>>)>>),
   \* 22: lines 410-437
   Def("first_class_types", 410, "slide", <<
       H("", "code_slide", "slide", <<"robot_joint-cpp/src/lib.rs", "Rust", Src("#[repr(C)]", 20)>>)>>),
   \* 23: lines 440-464
   Def("first_class_types", 440, "slide", <<
       H("", "code_slide", "slide", <<"robot_joint-cpp/src/lib.cpp", "C++", Src("struct Mat4d {", 17)>>)>>),
   \* 24: lines 467-471
   Def("bridge", 467, "slide", <<
       H("", "full_image_slide", "slide", <<"Red Cliff Bridge", get_image_path("Redcliff_bridge_2006.jpg")>>)>>),
   \* 25: lines 474-480
   Def("so_what", 474, "slide", <<
       H("text_area", "text_slide", "slide", <<"So What?">>),
       C("", "text_area", <<mBox("sbox", "", NoShow), mText(T("Rust / C++ Interop is Straightforward\nDon't Listen to the Naysayers"), [align |-> "middle", bold |-> TRUE])>>)>>),
   \* 26: lines 483-489
   Def("creddits", 483, "slide", <<
       H("text_area", "text_slide", "slide", <<"Attribution">>),
       C("", "text_area", <<mBox("sbox", "", NoShow), mText(T("Kyle Cesare's OptIk\n") \o S("link", "github.com/kylc/optik"), [align |-> "middle", bold |-> TRUE])>>)>>)
  >>

\* scripts whose output path is made from the number of their slide definitions
Program_path_from_deck(name) ==
  IF name = "roscon23_parameters"
  THEN [font |-> "Lato", defs |-> roscon23_parameters,
        output |-> "roscon23_parameters_" \o ToString(Len(roscon23_parameters)) \o ".pdf",
        page_numbering_func |-> "None"]
  ELSE [font |-> "Noto Sans", defs |-> rust_cpp_interop,
        output |-> "rust_cpp_interop_" \o ToString(Len(rust_cpp_interop)) \o ".pdf",
        page_numbering_func |-> "my_page_numbering"]

\* The statements of a script outside its slide definitions: the init_deck call, the
\* output path and the page numbering function handed to render_deck.
Program(name) ==
  IF name = "roscon23_parameters"
  THEN [font |-> "Lato", defs |-> roscon23_parameters,
        output |-> "roscon23_parameters.pdf", page_numbering_func |-> "None"]
  ELSE [font |-> "Noto Sans", defs |-> rust_cpp_interop,
        output |-> "rust_cpp_interop.pdf", page_numbering_func |-> "my_page_numbering"]

Scripts == {"roscon23_parameters", "rust_cpp_interop"}

NumDefs == Len(Program(script).defs)

(***************************************************************************)
(* Page numbering and rendering                                            *)
(***************************************************************************)
\* for i, slide in enumerate(slides): the label of the slide at 0-based position i
RECURSIVE NumberFrom(_, _, _)
NumberFrom(d, i, total) ==
  IF i >= Len(d.slides) THEN d
  ELSE With(Box(d, i + 1, 1, "box", "", NoShow), LAMBDA d1 :
       With(text(d1, i + 1, Last(d1, i + 1),
                 T(ToString(i + 1) \o " ") \o S("grayed_text", "of " \o ToString(total)),
                 [align |-> "right", size |-> 36]), LAMBDA d2 :
       NumberFrom(d2, i + 1, total)))

\* my_page_numbering that takes the index of the last slide for the total
my_page_numbering_total_is_last_index(d) ==
  With(Len(d.slides) - 1, LAMBDA total : NumberFrom(d, 0, total))

\* def my_page_numbering(slides)
my_page_numbering(d) ==
  With(Len(d.slides), LAMBDA total : NumberFrom(d, 0, total))

\* the pages of the slides from the i-th on: one page per step of each slide
RECURSIVE PagesFrom(_, _)
PagesFrom(d, i) ==
  IF i > Len(d.slides) THEN <<>>
  ELSE With(d.slides[i].boxes, LAMBDA boxes :
         [k \in 1..Steps(boxes) |->
            [slide |-> i, line |-> d.slides[i].line, step |-> k,
             drawn |-> {b \in DOMAIN boxes : Drawn(boxes, b, k)}]])
       \o PagesFrom(d, i + 1)

\* SlideDeck.render(output, slide_postprocessing): the postprocessing runs on the
\* slides, then every step of every slide becomes a page of the one file written
render(d, output, slide_postprocessing) ==
  With(IF slide_postprocessing = "my_page_numbering" THEN my_page_numbering(d) ELSE d,
       LAMBDA d1 :
         [d |-> d1,
          written |-> IF d1.err # "" THEN <<>>
                      ELSE <<[path |-> output, pages |-> PagesFrom(d1, 1)]>>])

\* def render_deck(slides, output, page_numbering_func=None): not in the sources at
\* hand.  Modelled as the render call with the numbering as postprocessing.
render_deck(d, output, page_numbering_func) == render(d, output, page_numbering_func)

(***************************************************************************)
(* The run of a script                                                     *)
(***************************************************************************)
\* before init_deck there is no deck
NoDeck == [width |-> 0, height |-> 0, name_policy |-> "", styles |-> NoStyle,
           slides |-> <<>>, err |-> ""]

Init ==
  /\ script \in Scripts
  /\ missing \in {m \in SUBSET ImageFiles : Cardinality(m) <= MaxMissing}
  /\ pc = 0
  /\ status = "running"
  /\ deck = NoDeck
  /\ renders = 0
  /\ files = <<>>

\* slides = init_deck(...)
InitDeck ==
  /\ status = "running"
  /\ pc = 0
  /\ deck' = init_deck(Program(script).font)
  /\ status' = IF deck'.err = "" THEN "running" ELSE "error"
  /\ pc' = IF deck'.err = "" THEN 1 ELSE pc
  /\ UNCHANGED <<script, missing, renders, files>>

\* a script whose definitions are executed last to first
DefineSlide_last_first ==
  /\ status = "running"
  /\ pc \in 1..NumDefs
  /\ deck' = slide(deck, Program(script).defs[NumDefs + 1 - pc])
  /\ status' = IF deck'.err = "" THEN "running" ELSE "error"
  /\ pc' = IF deck'.err = "" THEN pc + 1 ELSE pc
  /\ UNCHANGED <<script, missing, renders, files>>

\* a script that catches what a slide definition raises and carries on
DefineSlide_carries_on ==
  /\ status = "running"
  /\ pc \in 1..NumDefs
  /\ deck' = slide(deck, Program(script).defs[pc])
  /\ status' = "running"
  /\ pc' = pc + 1
  /\ UNCHANGED <<script, missing, renders, files>>

\* the pc-th decorated definition of the script: the decorator registers the slide
\* and calls the function; an exception ends the run there
DefineSlide ==
  /\ status = "running"
  /\ pc \in 1..NumDefs
  /\ deck' = slide(deck, Program(script).defs[pc])
  /\ status' = IF deck'.err = "" THEN "running" ELSE "error"
  /\ pc' = IF deck'.err = "" THEN pc + 1 ELSE pc
  /\ UNCHANGED <<script, missing, renders, files>>

\* a script whose render_deck call stands above its last slide definition
RenderDeck_before_last ==
  /\ status = "running"
  /\ pc = NumDefs
  /\ renders = 0
  /\ \E r \in {render_deck(deck, Program(script).output, Program(script).page_numbering_func)} :
       /\ deck' = r.d
       /\ files' = files \o r.written
  /\ status' = IF deck'.err = "" THEN "running" ELSE "error"
  /\ renders' = renders + 1
  /\ UNCHANGED <<script, missing, pc>>

\* render_deck(slides, "<output>.pdf", ...), the last statement of the script
RenderDeck ==
  /\ status = "running"
  /\ pc = NumDefs + 1
  /\ \E r \in {render_deck(deck, Program(script).output, Program(script).page_numbering_func)} :
       /\ deck' = r.d
       /\ files' = files \o r.written
  /\ status' = IF deck'.err = "" THEN "done" ELSE "error"
  /\ pc' = IF deck'.err = "" THEN pc + 1 ELSE pc
  /\ renders' = renders + 1
  /\ UNCHANGED <<script, missing>>

Next == InitDeck \/ DefineSlide \/ RenderDeck

Spec == Init /\ [][Next]_vars

\* the interpreter runs the script to its end or to its first exception
FairSpec == Spec /\ WF_vars(Next)

(***************************************************************************)
(* Properties                                                              *)
(***************************************************************************)
TheProgram == Program(script)

Written == {files[f] : f \in DOMAIN files}

\* every leaf attached to a box of a slide of the deck
Items == {deck.slides[s].boxes[b].items[i] :
            <<s, b, i>> \in {t \in (DOMAIN deck.slides) \X (1..40) \X (1..4) :
                               /\ t[2] \in DOMAIN deck.slides[t[1]].boxes
                               /\ t[3] \in DOMAIN deck.slides[t[1]].boxes[t[2]].items}}

\* the style names a leaf refers to
StylesUsed(it) ==
  IF it.k = "text" THEN {"default"} \cup SegStyles(it.segs)
  ELSE IF it.k = "code" THEN {"code"} \cup SegStyles(it.segs)
  ELSE {}

\* the image paths the definitions of a script hand to the layout helpers, and the logo
PathsAsked(defs) ==
  {get_image_path("picknik_logo.png")} \cup
  {defs[t[1]].body[t[2]].args[2] :
     t \in {u \in (DOMAIN defs) \X (1..12) :
              /\ u[2] \in DOMAIN defs[u[1]].body
              /\ defs[u[1]].body[u[2]].st = "helper"
              /\ defs[u[1]].body[u[2]].fn \in {"image_slide", "full_image_slide"}}}

\* every image asset the script attaches is in the static directory
AssetsPresent == \A path \in PathsAsked(TheProgram.defs) : FileExists(path)

Finished == status = "done"

(* C1: slides render in declaration order.  In the file a script writes, every
   decorated definition has its pages, and whenever definition A is executed
   before definition B (A's decorator line is above B's) every page of A comes
   before every page of B.  Both decks. *)
C1_RenderInDeclarationOrder ==
  \A f \in Written :
    /\ \A i \in DOMAIN TheProgram.defs :
         \E p \in DOMAIN f.pages : f.pages[p].line = TheProgram.defs[i].line
    /\ \A p, q \in DOMAIN f.pages : f.pages[p].line < f.pages[q].line => p < q

\* a rendered deck in which a slide has more pages than one
C1_Witness ==
  /\ Finished
  /\ script = "roscon23_parameters"
  /\ \E f \in Written : \E p, q \in DOMAIN f.pages :
       /\ p + 1 < q
       /\ f.pages[p].line < f.pages[p + 1].line
       /\ f.pages[p + 1].line = f.pages[q].line

(* C2: style names are defined before use.  No step ends because a text or a code
   leaf names a style the registry lacks, and every style name a leaf of a slide or
   a page label refers to (default, code, link, grayed_text) is in the registry
   init_deck set up. *)
C2_StylesDefinedBeforeUse ==
  /\ deck.err # "style"
  /\ \A it \in Items : StylesUsed(it) \subseteq DOMAIN deck.styles

\* the numbered deck: link and grayed_text are both in use
C2_Witness ==
  /\ Finished
  /\ script = "rust_cpp_interop"
  /\ \E it \in Items : it.k = "text" /\ "grayed_text" \in StylesUsed(it)
  /\ \E it \in Items : it.k = "text" /\ "link" \in StylesUsed(it)

(* C3, as stated: no step of a run ends in an error. *)
C3_NoStepEndsInError == status # "error"

(* C3, amended: provided every image asset the script attaches is present, no step
   (init_deck, a slide definition, render_deck) ends in an error and the run reaches
   the finished state, one render call made and one file of at least one page
   written. *)
C3_SmokeTest ==
  /\ [](AssetsPresent => status # "error")
  /\ AssetsPresent ~> (/\ Finished
                       /\ renders = 1
                       /\ Len(files) = 1
                       /\ Len(files[1].pages) > 0)

\* a finished run in a checkout that lacks an asset the script does not attach
C3_Witness ==
  /\ Finished
  /\ missing # {}
  /\ AssetsPresent
  /\ Len(files) = 1
  /\ Len(files[1].pages) >= NumDefs

(* C4: construction, then a single render-and-exit.  render_deck is called at most
   once, and only when every decorated definition has registered its slide; the
   deck then holds exactly the slides of the definitions, so none is added after;
   a file is written only by that call, and a finished run has written exactly
   one. *)
C4_SingleRenderAtEnd ==
  /\ renders <= 1
  /\ Len(files) <= renders
  /\ renders = 1 => /\ pc > NumDefs
                    /\ Len(deck.slides) = NumDefs
  /\ Finished => renders = 1 /\ Len(files) = 1

C4_Witness ==
  /\ Finished
  /\ renders = 1
  /\ Len(files) = 1
  /\ Len(deck.slides) = NumDefs

(* C5: the output path is a constant of the script.  Whatever the state of the
   image assets and whatever the slides hold, a file a script writes is at
   "roscon23_parameters.pdf" for roscon23_parameters.py and at "rust_cpp_interop.pdf"
   for rust_cpp_interop.py. *)
C5_FixedOutputPath ==
  \A f \in Written :
    f.path = IF script = "roscon23_parameters" THEN "roscon23_parameters.pdf"
             ELSE "rust_cpp_interop.pdf"

\* a file written in a checkout that differs from the complete one
C5_Witness ==
  /\ Finished
  /\ missing # {}
  /\ \E f \in Written : f.path = "roscon23_parameters.pdf"

(* C6: image paths are resolved against the fixed static directory.
   get_image_path(f) is "../../static/images/" followed by f for every asset name f;
   every image leaf of a slide (the logo of logo_header_slide included) has such a
   path; and with every asset in place no image is asked for at a path outside the
   directory. *)
C6_ImagePathsUnderStaticDir ==
  /\ \A f \in ImageFiles : get_image_path(f) = "../../static/images/" \o f
  /\ \A it \in Items :
       it.k = "image" => \E f \in ImageFiles : it.path = "../../static/images/" \o f
  /\ \A path \in PathsAsked(TheProgram.defs) :
       \E f \in ImageFiles : path = "../../static/images/" \o f
  /\ missing = {} => deck.err # "image"

\* the logo and the picture of the author slide, both attached
C6_Witness ==
  /\ script = "roscon23_parameters"
  /\ \E it \in Items : it.k = "image" /\ it.path = "../../static/images/picknik_logo.png"
  /\ \E it \in Items : it.k = "image" /\ it.path = "../../static/images/kart.jpg"

(* C7: no validation, no recovery.  Once a step has raised, the run has stopped at
   that step: the error is the run's outcome, the slide being defined is the last
   one registered, render_deck has not been called, no file is written, and nothing
   changes any more. *)
C7_ErrorStopsTheRun ==
  /\ [](deck.err # "" => /\ status = "error"
                         /\ pc <= NumDefs
                         /\ Len(deck.slides) <= pc
                         /\ renders = 0
                         /\ files = <<>>)
  /\ [][deck.err # "" => UNCHANGED vars]_vars

\* a run stopped by a missing image after slides were registered
C7_Witness ==
  /\ status = "error"
  /\ deck.err = "image"
  /\ pc > 1
  /\ Len(deck.slides) = pc
  /\ pc < NumDefs

(* C8: the slide list is only appended to.  At every point of a run the deck holds,
   in order, one slide for each decorated definition executed so far and nothing
   else, also where a definition reuses the function name of an earlier one; when
   render_deck is called the deck is as long as the script has decorated
   definitions. *)
C8_SlideListAppendOnly ==
  /\ Len(deck.slides) = IF pc = 0 THEN 0
                        ELSE IF status = "error" THEN pc
                        ELSE IF pc > NumDefs THEN NumDefs
                        ELSE pc - 1
  /\ \A i \in DOMAIN deck.slides :
       /\ deck.slides[i].line = TheProgram.defs[i].line
       /\ deck.slides[i].name = TheProgram.defs[i].fn
  /\ renders >= 1 => Len(deck.slides) = NumDefs

\* two slides of one function name, both in the deck
C8_Witness ==
  \E i, j \in DOMAIN deck.slides :
    /\ i < j
    /\ deck.slides[i].name = deck.slides[j].name
    /\ deck.slides[i].line # deck.slides[j].line

\* every box of the tree but the root hangs under an earlier box of the same tree
UnderRoot(boxes) ==
  /\ boxes[1].parent = 0
  /\ \A b \in DOMAIN boxes : b > 1 => boxes[b].parent \in 1..(b - 1)

\* what a step taken while the slide definitions run does to the deck
OnlyComposes ==
  pc \in 1..NumDefs =>
    /\ deck'.styles = deck.styles
    /\ \A i \in DOMAIN deck.slides : deck'.slides[i] = deck.slides[i]
    /\ \A i \in DOMAIN deck'.slides : UnderRoot(deck'.slides[i].boxes)

(* C9: the layout helpers only compose.  The step of a slide definition leaves the
   style registry as it was (inline text styles included), leaves every slide
   registered before as it was, and all boxes it adds hang under the root box of
   the new slide, the parent the helper was given. *)
C9_HelpersOnlyCompose == [][OnlyComposes]_vars

\* a helper has built its boxes beside an earlier slide; an inline style was passed
C9_Witness ==
  /\ Len(deck.slides) >= 2
  /\ Len(deck.slides[2].boxes) > 6
  /\ \E it \in Items : it.k = "text" /\ it.style = [bold |-> TRUE]

\* the boxes of list items: the box beside the bullet of a row
ItemBoxes(boxes) ==
  {b \in DOMAIN boxes :
     /\ b > 1
     /\ boxes[b - 1].parent = boxes[b].parent
     /\ boxes[b - 1].items = <<[k |-> "text", segs |-> T("*"), style |-> NoStyle]>>}

\* the pages of the slide defined at `line`
PagesOf(f, line) == {p \in DOMAIN f.pages : f.pages[p].line = line}

\* 'Why so many parameters?'
WhySoMany == 310

(* C10: conditional visibility gives progressive reveal.  On every slide a box
   without a show range is visible at every step, a box with show "k+" at exactly
   the steps n >= k and a box with show "k" at exactly step k, and the slide has as
   many steps as the largest k it mentions.  In the file written, the slide 'Why so
   many parameters?' has pages for the steps 1 to 5, the page of step n draws n list
   items, and what one page draws the next draws too. *)
C10_ProgressiveReveal ==
  /\ \A s \in DOMAIN deck.slides :
       LET boxes == deck.slides[s].boxes
           ks == {DigitVal(boxes[b].show[1]) : b \in {c \in DOMAIN boxes : boxes[c].show # NoShow}}
       IN /\ Steps(boxes) = SetMax(ks \cup {1})
          /\ \A b \in DOMAIN boxes : \A n \in 1..Steps(boxes) :
               LET show == boxes[b].show
               IN IsVisible(show, n) <=>
                    \/ show = NoShow
                    \/ \E k \in 1..9 : show = <<ToString(k)>> /\ n = k
                    \/ \E k \in 1..9 : show = <<ToString(k), "+">> /\ n >= k
  /\ \A f \in Written :
       script = "roscon23_parameters" =>
         LET ps == PagesOf(f, WhySoMany)
             boxes == deck.slides[f.pages[CHOOSE p \in ps : TRUE].slide].boxes
         IN /\ {f.pages[p].step : p \in ps} = 1..5
            /\ Cardinality(ps) = 5
            /\ \A p \in ps :
                 Cardinality(f.pages[p].drawn \cap ItemBoxes(boxes)) = f.pages[p].step
            /\ \A p, q \in ps :
                 f.pages[p].step <= f.pages[q].step => f.pages[p].drawn \subseteq f.pages[q].drawn

\* the rendered deck: one item on the first page of the slide, five on its last
C10_Witness ==
  /\ Finished
  /\ script = "roscon23_parameters"
  /\ \E f \in Written : \E p, q \in PagesOf(f, WhySoMany) :
       /\ f.pages[p].step = 1
       /\ f.pages[q].step = 5
       /\ f.pages[p].drawn # f.pages[q].drawn

\* the page labels of a box tree: the text leaves "<number> ~grayed_text{of <total>}"
\* of the boxes right under the root, by box
Labels(boxes) ==
  {b \in DOMAIN boxes :
     /\ boxes[b].parent = 1
     /\ \E i \in DOMAIN boxes[b].items :
          /\ boxes[b].items[i].k = "text"
          /\ Len(boxes[b].items[i].segs) = 2
          /\ boxes[b].items[i].segs[2].st = "grayed_text"}

\* the label reads "n of total"
Reads(box, n, total) ==
  /\ Len(box.items) = 1
  /\ box.items[1].segs = <<[st |-> "", s |-> ToString(n) \o " "],
                           [st |-> "grayed_text", s |-> "of " \o ToString(total)]>>

(* C11: my_page_numbering numbers the slides 1..total.  No slide has a label before
   render_deck runs, and roscon23_parameters.py, which hands no numbering to
   render_deck, never has one.  Once render_deck has run on rust_cpp_interop.py,
   every slide has exactly one label; the label of the slide at position s (1-based,
   the 0-based i plus one) reads "s of total"; the numbers are therefore 1, 2, ...,
   total in declaration order, the last one being the total; and the total is the
   number of decorated definitions of rust_cpp_interop.py. *)
C11_PageNumbersOneToTotal ==
  /\ (script = "roscon23_parameters" \/ renders = 0) =>
       \A s \in DOMAIN deck.slides : Labels(deck.slides[s].boxes) = {}
  /\ (script = "rust_cpp_interop" /\ renders = 1) =>
       /\ Len(deck.slides) = Len(rust_cpp_interop)
       /\ \A s \in DOMAIN deck.slides :
            LET boxes == deck.slides[s].boxes
            IN /\ Cardinality(Labels(boxes)) = 1
               /\ \A b \in Labels(boxes) : Reads(boxes[b], s, Len(rust_cpp_interop))
               /\ deck.slides[s].line = rust_cpp_interop[s].line

\* the numbered deck: the first slide reads "1 of 26", the last "26 of 26"
C11_Witness ==
  /\ Finished
  /\ script = "rust_cpp_interop"
  /\ Len(deck.slides) = 26
  /\ \E b \in Labels(deck.slides[1].boxes) : Reads(deck.slides[1].boxes[b], 1, 26)
  /\ \E b \in Labels(deck.slides[26].boxes) : Reads(deck.slides[26].boxes[b], 26, 26)

\* box b hangs, at any depth, under box a
RECURSIVE IsUnder(_, _, _)
IsUnder(boxes, b, a) ==
  /\ boxes[b].parent # 0
  /\ boxes[b].parent = a \/ IsUnder(boxes, boxes[b].parent, a)

\* the helper the definition of slide s calls on its slide
BuiltBy(s) == TheProgram.defs[s].body[1].fn

\* the slides whose helper, one of the four of my_layouts.py, has returned: all but
\* the slide a run stopped in
Framed ==
  {s \in DOMAIN deck.slides :
     /\ BuiltBy(s) \in {"logo_header_slide", "image_slide", "section_title_slide", "code_slide"}
     /\ ~(status = "error" /\ s = Len(deck.slides))}

\* the boxes right under the parent the helper was given (the root), page label aside
Children(boxes) == {b \in DOMAIN boxes : boxes[b].parent = 1} \ Labels(boxes)

LogoBoxes(boxes) ==
  {b \in Children(boxes) :
     boxes[b].items = <<[k |-> "image", path |-> get_image_path("picknik_logo.png")]>>}

Named(boxes, name) == {b \in Children(boxes) : boxes[b].name = name}

\* one logo box, one "header", one "content" right under the parent, made in that
\* order, and nothing else right under it
TopLevelFrame(boxes) ==
  /\ Cardinality(LogoBoxes(boxes)) = 1
  /\ Cardinality(Named(boxes, "header")) = 1
  /\ Cardinality(Named(boxes, "content")) = 1
  /\ \A l \in LogoBoxes(boxes) : \A h \in Named(boxes, "header") :
       \A c \in Named(boxes, "content") : l < h /\ h < c
  /\ Children(boxes) = LogoBoxes(boxes) \cup Named(boxes, "header") \cup Named(boxes, "content")

\* the boxes that are neither the root nor right under it
Deeper(boxes) == {b \in DOMAIN boxes : boxes[b].parent > 1}

(* C12, as stated: every slide a helper has built has the top-level frame, and every
   other box of it is a descendant of the "content" box. *)
C12_AllElseUnderContent ==
  \A s \in Framed :
    LET boxes == deck.slides[s].boxes
    IN /\ TopLevelFrame(boxes)
       /\ \A b \in Deeper(boxes) : \E c \in Named(boxes, "content") : IsUnder(boxes, b, c)

(* C12, amended: every slide built through logo_header_slide, image_slide,
   section_title_slide or code_slide has the same top-level frame: right under the
   parent there is exactly one logo image box, exactly one box named "header" and
   exactly one box named "content", created in that order, and nothing else; the
   box that holds the title is a child of the "header" box, and every other box is
   a descendant of the "content" box. *)
C12_SameTopLevelFrame ==
  \A s \in Framed :
    LET boxes == deck.slides[s].boxes
    IN /\ TopLevelFrame(boxes)
       /\ \A h \in Named(boxes, "header") :
            /\ Cardinality({b \in DOMAIN boxes : boxes[b].parent = h}) = 1
            /\ \A b \in Deeper(boxes) :
                 \/ /\ boxes[b].parent = h
                    /\ Len(boxes[b].items) = 1
                    /\ boxes[b].items[1].k = "text"
                    /\ boxes[b].items[1].style = [bold |-> TRUE]
                 \/ \E c \in Named(boxes, "content") : IsUnder(boxes, b, c)

\* a deck with a slide of each of the four helpers, the picture of image_slide and
\* the code of code_slide below the content box
C12_Witness ==
  /\ \A fn \in {"logo_header_slide", "image_slide", "section_title_slide", "code_slide"} :
       \E s \in Framed : BuiltBy(s) = fn
  /\ \E s \in Framed :
       LET boxes == deck.slides[s].boxes
       IN \E b \in Deeper(boxes) :
            /\ boxes[b].name = "image"
            /\ \E c \in Named(boxes, "content") : IsUnder(boxes, b, c) /\ boxes[b].parent # c
  /\ \E s \in Framed :
       LET boxes == deck.slides[s].boxes
       IN \E b \in Deeper(boxes) :
            /\ Len(boxes[b].items) = 1
            /\ boxes[b].items[1].k = "code"
            /\ \E c \in Named(boxes, "content") : IsUnder(boxes, b, c)

\* the boxes of a tree by name
ByName(boxes, name) == {b \in DOMAIN boxes : boxes[b].name = name}

\* the box the helper of slide s returned: "content" of logo_header_slide,
\* "text_area" of image_slide
Returned(s) ==
  ByName(deck.slides[s].boxes,
         IF BuiltBy(s) = "image_slide" THEN "text_area" ELSE "content")

\* the slides whose definition goes on with the box its helper returned
Continued == {s \in Framed : BuiltBy(s) \in {"logo_header_slide", "image_slide"}}

\* the boxes the slide function made once the helper had returned: those younger
\* than every box of the helper, page label aside
AddedAfter(s) ==
  LET boxes == deck.slides[s].boxes
      last  == SetMax(IF BuiltBy(s) = "image_slide" THEN ByName(boxes, "image")
                      ELSE ByName(boxes, "content"))
  IN {b \in DOMAIN boxes : b > last} \ Labels(boxes)

\* text_area and the "image" box are the two boxes of one row inside "content"
SiblingsInRow(boxes, r) ==
  \E row \in DOMAIN boxes : \E img \in ByName(boxes, "image") :
    /\ boxes[r].parent = row
    /\ boxes[img].parent = row
    /\ {b \in DOMAIN boxes : boxes[b].parent = row} = {r, img}
    /\ boxes[row].parent \in Named(boxes, "content")
    /\ \E i \in DOMAIN boxes[img].items : boxes[img].items[i].k = "image"

\* what holds of the trees in every state
OwnTree ==
  /\ \A s \in DOMAIN deck.slides : UnderRoot(deck.slides[s].boxes)
  /\ \A s \in Continued :
       LET boxes == deck.slides[s].boxes
       IN /\ Cardinality(Returned(s)) = 1
          /\ \A r \in Returned(s) :
               /\ IsUnder(boxes, r, 1)
               /\ BuiltBy(s) = "image_slide" => SiblingsInRow(boxes, r)
               /\ \A b \in AddedAfter(s) : IsUnder(boxes, b, r)

\* what a step does to the boxes there are: the slide of a definition keeps its
\* boxes, each under the parent it had
KeepsParents ==
  \A s \in DOMAIN deck.slides : \A t \in DOMAIN deck'.slides :
    deck'.slides[t].line = deck.slides[s].line =>
      \A b \in DOMAIN deck.slides[s].boxes :
        /\ b \in DOMAIN deck'.slides[t].boxes
        /\ deck'.slides[t].boxes[b].parent = deck.slides[s].boxes[b].parent

(* C13: the box a helper returns belongs to the slide it was called on.  The box
   logo_header_slide returns is the one "content" box and the box image_slide returns
   is the one "text_area" box, which shares a row inside "content" with the "image"
   box; either is a descendant of the parent the helper was given, the root of the
   slide being defined, and every box the slide function makes afterwards hangs
   under it.  In every tree each box but the root has one parent, an earlier box
   of the same slide, so it is reached from the root of its own slide and from no
   other; and no step takes a box from its slide or moves it to another parent. *)
C13_ReturnedBoxInOwnTree == []OwnTree /\ [][KeepsParents]_vars

\* author (image_slide) and copy_pasta (logo_header_slide) are both in the deck,
\* their list items under the box the helper returned
C13_Witness ==
  /\ script = "roscon23_parameters"
  /\ \E s \in Continued :
       /\ deck.slides[s].name = "author"
       /\ \E r \in Returned(s) : \E b \in AddedAfter(s) :
            /\ IsUnder(deck.slides[s].boxes, b, r)
            /\ deck.slides[s].boxes[b].items =
                 <<[k |-> "text", segs |-> T("Racing Kart Driver"), style |-> NoStyle]>>
  /\ \E s \in Continued :
       /\ deck.slides[s].name = "copy_pasta"
       /\ \E r \in Returned(s) : \E b \in AddedAfter(s) :
            /\ IsUnder(deck.slides[s].boxes, b, r)
            /\ deck.slides[s].boxes[b].parent # r
            /\ deck.slides[s].boxes[b].items =
                 <<[k |-> "text", segs |-> T("parameter name: 6 separate copies"),
                    style |-> NoStyle]>>

====
